---- MODULE Spec2Model ----
(***************************************************************************)
(* Wire-scanner (BWS) emittance reconstruction of pytimber/LHCBWS.py:      *)
(*   extract_bunch_selection   bunch-selection bitmask decoding            *)
(*   _get_timber_data          variable collection and the backward search *)
(*                             for an energy sample preceding t1           *)
(*   _timber_to_dict           variable resolution, the acquisition loop   *)
(*                             and the per-slot profile normalisation/fit  *)
(*   BWS.fromdb                the four (plane, direction) passes          *)
(* Each part is a state machine of its own (SpecEnergy, SpecBits,          *)
(* SpecResolve, SpecAlign, SpecProfile) over the variables it owns; the    *)
(* variables of the other parts stay at their idle values.                 *)
(***************************************************************************)
EXTENDS Integers, Sequences, FiniteSets

VARIABLES
  \* ---- _get_timber_data, energy search (lines 135-158) and the energy join
  pcE,        \* position: "idle","loop1","loop2","done","ValueError","IndexError"
  t1_new,     \* start bound of the latest energy query
  degev,      \* latest answer of db.get for LHC.BOFSU:OFC_ENERGY
  nq,         \* number of re-queries issued by the two while loops
  joined,     \* acquisitions joined with an energy sample so far
  \* ---- extract_bunch_selection
  pcB, selS, chunks, bunchSelection,
  \* ---- variable resolution of fromdb
  pcR, fetched, pass, key, lastSearch, used, err, dataR,
  \* ---- acquisition loop of _timber_to_dict
  pcA, tpos, tbeta, strictMask, slotsAt, acq, nfit, dbws, lastFit, ret,
  \* ---- profile normalisation of _timber_to_dict
  pcP,        \* position: "idle","fit","done","FitError"
  pos,        \* position array of the acquisition
  ampIn,      \* the amplitude rows as the logging service supplied them
  stream,     \* the rows as now stored in the amplitude stream vv['amp']
  shared,     \* whether amp is a view of the stream's storage
  amp,        \* the local array amp (ngate rows)
  idx,        \* rows handled so far
  amp_norm,   \* the local amp_norm of the latest row
  recs        \* the tuples appended so far

evars == <<pcE, t1_new, degev, nq, joined>>
bvars == <<pcB, selS, chunks, bunchSelection>>
rvars == <<pcR, fetched, pass, key, lastSearch, used, err, dataR>>
avars == <<pcA, tpos, tbeta, strictMask, slotsAt, acq, nfit, dbws, lastFit, ret>>
pvars == <<pcP, pos, ampIn, stream, shared, amp, idx, amp_norm, recs>>
vars  == <<evars, bvars, rvars, avars, pvars>>

\* the values a part's variables keep while another part runs
EnergyIdle ==
  pcE = "idle" /\ t1_new = 0 /\ degev = <<>> /\ nq = 0 /\ joined = <<>>
BitsIdle ==
  pcB = "idle" /\ selS = {} /\ chunks = <<>> /\ bunchSelection = <<>>
ResolveIdle ==
  /\ pcR = "idle" /\ fetched = {} /\ pass = 0 /\ key = 0
  /\ lastSearch = <<>> /\ used = <<>> /\ err = <<>> /\ dataR = <<>>
AlignIdle ==
  /\ pcA = "idle" /\ tpos = <<>> /\ tbeta = <<>> /\ strictMask = FALSE
  /\ slotsAt = <<>> /\ acq = 0 /\ nfit = 0 /\ dbws = <<>>
  /\ lastFit = "none" /\ ret = "none"
ProfileIdle ==
  /\ pcP = "idle" /\ pos = <<>> /\ ampIn = <<>> /\ stream = <<>>
  /\ shared = FALSE /\ amp = <<>> /\ idx = 0 /\ amp_norm = <<>> /\ recs = <<>>

----------------------------------------------------------------------------
(* Generic helpers                                                         *)

Abs(x) == IF x < 0 THEN -x ELSE x

Range(s) == {s[i] : i \in 1..Len(s)}

\* all sequences over S of length 0..n
SeqsUpTo(S, n) == UNION {[1..k -> S] : k \in 0..n}

IsNonDecreasing(ts) == \A i \in 1..Len(ts) - 1 : ts[i] <= ts[i + 1]

IsStrictlyAscending(ts) == \A i \in 1..Len(ts) - 1 : ts[i] < ts[i + 1]

----------------------------------------------------------------------------
(* _get_timber_data: the search for an energy sample at or before t1       *)

\* bounds of the explored inputs
WindowLen  == 2
MaxSamples == 2

Day   == 24 * 60 * 60
Month == 30 * 24 * 60 * 60

t1 == 40 * Day
t2 == t1 + WindowLen

\* the energies a sample may carry (injection and flat top, GeV)
Energies == {450, 6500}

\* timestamps a logged energy sample may carry: before, at and inside the window
SampleTimes == {t1 - 1} \cup (t1..t2)

\* what the query stub may return: any time series with non-decreasing times
Sample == [time : SampleTimes, value : Energies]
EnergySeries == {s \in SeqsUpTo(Sample, MaxSamples) :
                   IsNonDecreasing([i \in 1..Len(s) |-> s[i].time])}

IsEmpty(s) == Len(s) = 0
Covers(s) == ~IsEmpty(s) /\ s[1].time <= t1

\* line 142 / 150: the staleness test made before every backward step
TooFarBack(tn) == Abs(tn - t1) > Month

InitEnergy ==
  /\ pcE = "loop1"
  /\ t1_new = t1
  /\ degev \in EnergySeries
  /\ nq = 0
  /\ joined = <<>>

\* lines 141-147: while degev[0].size == 0
Loop1Step ==
  /\ pcE = "loop1"
  /\ IsEmpty(degev)
  /\ IF TooFarBack(t1_new)
       THEN /\ pcE' = "ValueError"
            /\ UNCHANGED <<t1_new, degev, nq>>
       ELSE /\ t1_new' = t1_new - Day
            /\ degev' \in EnergySeries
            /\ nq' = nq + 1
            /\ pcE' = "loop1"
  /\ UNCHANGED <<joined, bvars, rvars, avars, pvars>>

Loop1Exit ==
  /\ pcE = "loop1"
  /\ ~IsEmpty(degev)
  /\ pcE' = "loop2"
  /\ UNCHANGED <<t1_new, degev, nq, joined, bvars, rvars, avars, pvars>>

\* lines 149-155: while degev[0][0] > t1; degev[0][0] of an empty answer
\* raises IndexError
Loop2Step ==
  /\ pcE = "loop2"
  /\ IF IsEmpty(degev)
       THEN /\ pcE' = "IndexError"
            /\ UNCHANGED <<t1_new, degev, nq>>
       ELSE /\ degev[1].time > t1
            /\ IF TooFarBack(t1_new)
                 THEN /\ pcE' = "ValueError"
                      /\ UNCHANGED <<t1_new, degev, nq>>
                 ELSE /\ t1_new' = t1_new - Day
                      /\ degev' \in EnergySeries
                      /\ nq' = nq + 1
                      /\ pcE' = "loop2"
  /\ UNCHANGED <<joined, bvars, rvars, avars, pvars>>

\* lines 156-158: data['LHC.BOFSU:OFC_ENERGY'] = degev; return data
Loop2Exit ==
  /\ pcE = "loop2"
  /\ ~IsEmpty(degev)
  /\ ~(degev[1].time > t1)
  /\ pcE' = "done"
  /\ UNCHANGED <<t1_new, degev, nq, joined, bvars, rvars, avars, pvars>>

\* np.where(t - times >= 0.)[0]: the indices, ascending, of the samples at or
\* before t
WhereNotAfter(t, s) == {i \in 1..Len(s) : t - s[i].time >= 0}

\* [-1] of the index array
LastIndex(I) == CHOOSE i \in I : \A j \in I : j <= i

\* a bug the join could have: [0] instead of [-1]
FirstIndexJoin(t, s) == CHOOSE i \in WhereNotAfter(t, s) :
                          \A j \in WhereNotAfter(t, s) : i <= j

\* line 215: igev
Igev(t, s) == LastIndex(WhereNotAfter(t, s))

\* lines 215-216 of _timber_to_dict for one acquisition at time t of the window
EnergyJoin ==
  /\ pcE = "done"
  /\ \E t \in t1..t2 :
       /\ Len(joined) > 0 => joined[Len(joined)].t < t
       /\ IF WhereNotAfter(t, degev) = {}
         THEN /\ pcE' = "JoinIndexError"
              /\ UNCHANGED <<joined, bvars, rvars, avars, pvars>>
         ELSE /\ joined' = Append(joined, [t |-> t, igev |-> Igev(t, degev),
                                           egev |-> degev[Igev(t, degev)].value])
              /\ pcE' = "done"
  /\ UNCHANGED <<t1_new, degev, nq, bvars, rvars, avars, pvars>>

NextEnergy == Loop1Step \/ Loop1Exit \/ Loop2Step \/ Loop2Exit \/ EnergyJoin

InitE == InitEnergy /\ BitsIdle /\ ResolveIdle /\ AlignIdle /\ ProfileIdle

SpecEnergy == InitE /\ [][NextEnergy]_vars

\* C1 (as claimed): whatever mix of empty and late answers precedes the first
\* covering one, the search raises no error during the first 30 backward steps
\* and, when it returns, it returns a covering series after exactly as many
\* re-queries as one-day steps.
C1_ExactStepCount ==
  /\ pcE # "IndexError"
  /\ (pcE = "ValueError" => nq > 30)
  /\ (pcE = "done" => Covers(degev) /\ t1_new = t1 - nq * Day)

\* C2 (as claimed): no query starts more than 30 days before t1, no returned
\* series comes from such a query, and the only failure of the search is the
\* staleness error.
C2_StalenessBound ==
  /\ t1 - t1_new <= Month
  /\ (pcE = "done" => t1 - t1_new <= Month)
  /\ pcE # "IndexError"

\* C9: every acquisition of the window is joined with the last energy sample
\* at or before its timestamp: the sample exists, it is not after t, every
\* sample stored after it is later than t, and its value is the one attached.
C9_EnergyJoin ==
  /\ pcE # "JoinIndexError"
  /\ \A k \in 1..Len(joined) :
       LET j == joined[k] IN
         /\ j.igev \in 1..Len(degev)
         /\ degev[j.igev].time <= j.t
         /\ \A i \in 1..Len(degev) : degev[i].time <= j.t => i <= j.igev
         /\ \A i \in 1..Len(degev) : i > j.igev => degev[i].time > j.t
         /\ j.egev = degev[j.igev].value

\* C9 witness: after a backward search, two acquisitions share one energy
\* sample although a later sample is stored behind it.
C9_Witness ==
  /\ pcE = "done" /\ nq > 0
  /\ Len(joined) >= 2
  /\ joined[1].igev = joined[2].igev
  /\ joined[1].igev < Len(degev)

----------------------------------------------------------------------------
(* extract_bunch_selection: decoding the packed bunch-selection chunks.    *)
(* A chunk is an unsigned 32-bit number kept as two 16-bit halves,         *)
(* value = hi * 65536 + lo.                                                *)

\* bound of the explored inputs: number of 32-bit chunks
MaxChunks == 2

ChunkBits == 32

\* bit positions of a chunk the explored selections may set
BitPositions == {0, 1, 16, 31}

SlotsBelow(n) == {ChunkBits * i + p : i \in 0..n - 1, p \in BitPositions}

RECURSIVE Pow2(_)
Pow2(n) == IF n = 0 THEN 1 ELSE 2 * Pow2(n - 1)

\* 2^16: a chunk is held as hi * Half + lo
Half == Pow2(16)

RECURSIVE SumPow2(_)
SumPow2(P) == IF P = {} THEN 0
              ELSE LET p == CHOOSE x \in P : TRUE
                   IN Pow2(p) + SumPow2(P \ {p})

\* the packing the logging service stores: bit p of chunk i is set iff
\* 32*i + p is selected
PackChunk(S, i) ==
  [lo |-> SumPow2({p \in 0..15 : ChunkBits * i + p \in S}),
   hi |-> SumPow2({p \in 0..15 : ChunkBits * i + 16 + p \in S})]

Pack(S, n) == [i \in 1..n |-> PackChunk(S, i - 1)]

\* line 35: bsb != 0
IsZero(c) == c.hi = 0 /\ c.lo = 0

\* line 37: int(float(bsb)) & 0xffffffff
Mask32(c) == [lo |-> c.lo % Half, hi |-> c.hi % Half]

RECURSIVE Digits(_)
\* binary digits of n, least significant first, none for 0
Digits(n) == IF n = 0 THEN <<>> ELSE <<n % 2>> \o Digits(n \div 2)

RECURSIVE DigitsPadded(_, _)
\* exactly k binary digits of n, least significant first
DigitsPadded(n, k) == IF k = 0 THEN <<>>
                      ELSE <<n % 2>> \o DigitsPadded(n \div 2, k - 1)

\* lines 37-38: bin(...)[2:][::-1], the digits of the chunk from the least
\* significant one, without leading zeros ('0' for the number 0)
BinReversed(c) ==
  IF c.hi = 0
    THEN (IF c.lo = 0 THEN <<0>> ELSE Digits(c.lo))
    ELSE DigitsPadded(c.lo, 16) \o Digits(c.hi)

RECURSIVE ScanBits(_, _, _)
\* lines 38-41: the inner loop from position counter on
ScanBits(bits, counter, main_counter) ==
  IF counter > Len(bits) - 1 THEN <<>>
  ELSE (IF bits[counter + 1] = 1 THEN <<main_counter + counter>> ELSE <<>>)
       \o ScanBits(bits, counter + 1, main_counter)

\* lines 35-41: what one chunk appends to bunchSelection
ChunkSlots(c, main_counter) ==
  IF IsZero(c) THEN <<>>
  ELSE ScanBits(BinReversed(Mask32(c)), 0, main_counter)

\* a bug the decoder could have: main_counter advanced inside the if only
AdvanceNonZeroOnly(c, main_counter) ==
  IF IsZero(c) THEN main_counter ELSE main_counter + ChunkBits

\* line 42: main_counter += 32, for every chunk
Advance(c, main_counter) == main_counter + ChunkBits

RECURSIVE DecodeFrom(_, _, _)
\* lines 34-42: the outer loop from chunk i on
DecodeFrom(cs, i, main_counter) ==
  IF i > Len(cs) THEN <<>>
  ELSE ChunkSlots(cs[i], main_counter)
       \o DecodeFrom(cs, i + 1, Advance(cs[i], main_counter))

extract_bunch_selection(cs) == DecodeFrom(cs, 1, 0)

InitBits ==
  /\ pcB = "packed"
  /\ \E n \in 0..MaxChunks :
       /\ selS \in SUBSET SlotsBelow(n)
       /\ chunks = Pack(selS, n)
  /\ bunchSelection = <<>>

Decode ==
  /\ pcB = "packed"
  /\ bunchSelection' = extract_bunch_selection(chunks)
  /\ pcB' = "decoded"
  /\ UNCHANGED <<selS, chunks, evars, rvars, avars, pvars>>

NextBits == Decode

InitB == EnergyIdle /\ InitBits /\ ResolveIdle /\ AlignIdle /\ ProfileIdle

SpecBits == InitB /\ [][NextBits]_vars

\* C3: decoding the packing of a slot set S returns exactly the elements of
\* S, ascending and without duplicates; an all-zero chunk sequence decodes
\* to nothing, whatever its length.
C3_RoundTrip ==
  pcB = "decoded" =>
    /\ IsStrictlyAscending(bunchSelection)
    /\ Range(bunchSelection) = selS
    /\ ((\A i \in 1..Len(chunks) : IsZero(chunks[i])) => bunchSelection = <<>>)

\* C3 witness: a zero chunk followed by a chunk with its lowest and highest
\* bits set has been decoded.
C3_Witness ==
  /\ pcB = "decoded"
  /\ Len(chunks) >= 2 /\ IsZero(chunks[1])
  /\ {32, 63} \subseteq selS
  /\ Len(bunchSelection) >= 2

----------------------------------------------------------------------------
(* BWS.fromdb: the variable names of the run.  _get_timber_data collects   *)
(* the names of six broad searches; _timber_to_dict resolves six names for *)
(* each of the four (plane, direction) passes.  A search pattern is kept   *)
(* as the sequence of its pieces between the % wildcards.                  *)

\* bound of the explored inputs: how many names the search stub knows
MaxNames == 2

Names == {<<"name", i>> : i \in 1..MaxNames}

Beam == "B1"

EnergyVar == <<"LHC.BOFSU:OFC_ENERGY", 0>>

\* lines 121-122
CollectVars == <<"NB_GATES", "BUNCH_SELECTION", "PROF_POSITION_",
                 "PROF_DATA_", "BETA", "EMITTANCE_NORM">>

\* lines 178-181
keys_timber == <<"NB_GATES", "BUNCH_SELECTION", "BETA", "EMITTANCE_NORM",
                 "PROF_POSITION", "PROF_DATA">>
keys_dic == <<"gate", "bunch", "beta", "emit", "pos", "amp">>

\* lines 338-340: for plane in 'HV': for io in 'IN','OUT'
Passes == <<[plane |-> "H", direction |-> "IN"],
            [plane |-> "H", direction |-> "OUT"],
            [plane |-> "V", direction |-> "IN"],
            [plane |-> "V", direction |-> "OUT"]>>

\* line 123: '%LHC%BWS%'+beam.upper()+'%'+var+'%'
CollectPattern(k) == <<"LHC", "BWS", Beam, CollectVars[k]>>

\* lines 184-194: var_str
ResolvePattern(p, k) ==
  LET name == <<"LHC", "BWS", Beam \o Passes[p].plane>>
  IN IF keys_dic[k] \in {"gate", "bunch"}
       THEN name \o <<keys_timber[k]>>
     ELSE IF keys_dic[k] \in {"beta", "emit"}
       THEN name \o <<Passes[p].direction, keys_timber[k]>>
     ELSE name \o <<keys_timber[k], Passes[p].direction>>

\* a bug the check could have: only an empty answer is refused
RefusedWhenEmpty(m) == Cardinality(m) = 0

\* line 197: len(var_name) != 1
Refused(m) == Cardinality(m) # 1

\* var_name[0] of a one-name answer
FirstName(m) == CHOOSE n \in m : TRUE

InitResolve ==
  /\ pcR = "collect"
  /\ fetched = {}
  /\ pass = 0
  /\ key = 1
  /\ lastSearch = [phase |-> "none", pattern |-> <<>>, matches |-> {}]
  /\ used = <<>>
  /\ err = [pattern |-> <<>>, matches |-> {}]
  /\ dataR = <<>>

\* lines 121-123: one db.search of _get_timber_data; any number of names is
\* taken over
Collect ==
  /\ pcR = "collect"
  /\ \E m \in SUBSET Names :
       /\ lastSearch' = [phase |-> "collect", pattern |-> CollectPattern(key),
                         matches |-> m]
       /\ fetched' = fetched \cup m
  /\ IF key < Len(CollectVars)
       THEN key' = key + 1 /\ pcR' = "collect"
       ELSE key' = 1 /\ pcR' = "get"
  /\ UNCHANGED <<pass, used, err, dataR, evars, bvars, avars, pvars>>

\* lines 124-158: the energy variable is added, the data fetched and the
\* energy search run; the search may fail (SpecEnergy)
GetData ==
  /\ pcR = "get"
  /\ \E found \in BOOLEAN :
       IF found
         THEN /\ fetched' = fetched \cup {EnergyVar}
              /\ pcR' = "resolve"
              /\ pass' = 1
         ELSE /\ pcR' = "EnergyError"
              /\ UNCHANGED <<fetched, pass>>
  /\ UNCHANGED <<key, lastSearch, used, err, dataR, evars, bvars, avars, pvars>>

\* lines 183-200: one db.search of _timber_to_dict and the lookup of its
\* single name in the fetched data (used: the names behind tt and vv, empty
\* at the start of each call); an exception drops the passes built so far,
\* fromdb returns nothing
Resolve ==
  /\ pcR = "resolve"
  /\ \E m \in SUBSET Names :
       /\ lastSearch' = [phase |-> "resolve",
                         pattern |-> ResolvePattern(pass, key), matches |-> m]
       /\ IF Refused(m)
            THEN /\ pcR' = "ValueError"
                 /\ err' = [pattern |-> ResolvePattern(pass, key),
                            matches |-> m]
                 /\ dataR' = <<>>
                 /\ UNCHANGED <<used, key>>
          ELSE IF FirstName(m) \notin fetched
            THEN /\ pcR' = "KeyError"
                 /\ dataR' = <<>>
                 /\ UNCHANGED <<used, key, err>>
          ELSE /\ used' = Append(IF key = 1 THEN <<>> ELSE used, FirstName(m))
               /\ IF key < Len(keys_dic)
                    THEN key' = key + 1 /\ pcR' = "resolve"
                    ELSE key' = 1 /\ pcR' = "build"
               /\ UNCHANGED <<err, dataR>>
  /\ UNCHANGED <<fetched, pass, evars, bvars, avars, pvars>>

\* lines 204-243 for the pass (SpecAlign, SpecProfile), then the next pass
\* or the return of the instance (lines 341-344)
BuildDict ==
  /\ pcR = "build"
  /\ \E built \in BOOLEAN :
       IF built
         THEN /\ dataR' = Append(dataR, [pass |-> Passes[pass],
                                          keys |-> Len(used)])
              /\ used' = used
              /\ IF pass < Len(Passes)
                   THEN pass' = pass + 1 /\ pcR' = "resolve"
                   ELSE pass' = pass /\ pcR' = "returned"
         ELSE /\ pcR' = "BuildError"
              /\ dataR' = <<>>
              /\ UNCHANGED <<used, pass>>
  /\ UNCHANGED <<fetched, key, lastSearch, err, evars, bvars, avars, pvars>>

NextResolve == Collect \/ GetData \/ Resolve \/ BuildDict

InitR == EnergyIdle /\ BitsIdle /\ InitResolve /\ AlignIdle /\ ProfileIdle

SpecResolve == InitR /\ [][NextResolve]_vars

\* C8 (as claimed): every search of the pipeline that returns no name or
\* several names ends the reconstruction with the ambiguity error.
C8_EverySearchStrict ==
  (lastSearch.phase # "none" /\ Cardinality(lastSearch.matches) # 1)
     => pcR = "ValueError"

\* C8 (amended): the six searches of _timber_to_dict are strict: an answer
\* with no name or several names raises ValueError carrying the pattern and
\* the answer, and nothing is returned; the name of a one-name answer is the
\* key under which the stream is read (KeyError, and nothing returned, when
\* the fetched data has no such key).  The searches of _get_timber_data
\* raise nothing.
C8_ResolveStrict ==
  /\ (lastSearch.phase = "resolve"
        /\ Cardinality(lastSearch.matches) # 1)
       => /\ pcR = "ValueError"
          /\ err = [pattern |-> lastSearch.pattern,
                    matches |-> lastSearch.matches]
          /\ dataR = <<>>
  /\ (lastSearch.phase = "resolve"
        /\ Cardinality(lastSearch.matches) = 1 /\ pcR \in {"resolve", "build"})
       => /\ used # <<>>
          /\ lastSearch.matches = {used[Len(used)]}
          /\ used[Len(used)] \in fetched
  /\ (pcR = "ValueError"
       => lastSearch.phase = "resolve" /\ Cardinality(lastSearch.matches) # 1)
  /\ (pcR = "KeyError"
       => /\ lastSearch.phase = "resolve"
          /\ Cardinality(lastSearch.matches) = 1
          /\ lastSearch.matches \cap fetched = {}
          /\ dataR = <<>>)
  /\ (pcR = "returned"
       => /\ Len(dataR) = Len(Passes)
          /\ \A i \in 1..Len(dataR) : dataR[i].keys = Len(keys_dic))

\* C8 witness: a search of _get_timber_data returned several names, a later
\* search of the second pass returned several names and stopped the run.
C8_Witness ==
  /\ pcR = "ValueError"
  /\ Cardinality(err.matches) > 1
  /\ Len(dataR) = 0 /\ pass >= 2

----------------------------------------------------------------------------
(* _timber_to_dict, lines 204-243: the loop over the acquisitions of the   *)
(* position stream and, inside it, over the rows (gates) of one            *)
(* acquisition.  The gate, bunch-selection and amplitude samples of an     *)
(* acquisition carry the timestamp of its position sample; ngate equals    *)
(* the number of decoded slots.  The beta and emittance streams share      *)
(* their own (reference) timestamps.                                       *)

\* bound of the explored inputs: samples of the position stream
MaxAcq == 2

\* timestamps of the position stream
AcqTimes == 1..MaxAcq

\* the k-th reference timestamp of the beta/emittance streams
RefTime(k) == MaxAcq + k

\* decoded bunch selections of one acquisition
SlotChoices == {<<0>>, <<0, 1>>}
Slots == {0, 1}

\* sequences without repetition over S
DistinctSeqs(S) == {q \in SeqsUpTo(S, Cardinality(S)) :
                      \A i, j \in 1..Len(q) : i # j => q[i] # q[j]}

\* what scipy's curve_fit may do with one row: return parameters and a finite
\* covariance, return parameters and an infinite covariance (it could not be
\* estimated), or raise RuntimeError (optimal parameters not found)
FitOutcomes == {"converged", "singular", "failed"}

InitAlign ==
  /\ pcA = "select"
  /\ tpos \in DistinctSeqs(AcqTimes)
  /\ \E n \in 0..MaxAcq : tbeta = [k \in 1..n |-> RefTime(k)]
  /\ strictMask \in BOOLEAN
  /\ slotsAt \in [AcqTimes -> SlotChoices]
  /\ acq = 1
  /\ nfit = 0
  /\ dbws = [sl \in Slots |-> <<>>]
  /\ lastFit = "none"
  /\ ret = "none"

\* a bug the loop could have: the stream walked from its end
AcqTimeReversed(k) == tpos[Len(tpos) + 1 - k]

\* line 205: for t in tt['pos'], the k-th iteration
AcqTime(k) == tpos[k]

\* a bug the selection could have: a mask that never raises
MaskNeverRaises(t) == FALSE

\* line 211: tt['beta'][tt['pos'] == t] raises IndexError when the mask is
\* True beyond the end of tt['beta']; a numpy that checks the mask length
\* (strictMask) raises whenever the two streams differ in length
MaskRaises(t) ==
  \/ (strictMask /\ Len(tpos) # Len(tbeta))
  \/ \E j \in 1..Len(tpos) : tpos[j] = t /\ j > Len(tbeta)

RECURSIVE MaskSelect(_, _)
\* line 211: the elements of tt['beta'] under the mask tt['pos'] == t, from
\* index j on
MaskSelect(t, j) ==
  IF j > Len(tbeta) \/ j > Len(tpos) THEN <<>>
  ELSE (IF tpos[j] = t THEN <<tbeta[j]>> ELSE <<>>) \o MaskSelect(t, j + 1)

\* line 211: tbe
Tbe(t) == MaskSelect(t, 1)

\* lines 205-216: the arrays of the acquisition acq are selected
SelectAcq ==
  /\ pcA = "select"
  /\ acq <= Len(tpos)
  /\ IF MaskRaises(AcqTime(acq))
       THEN pcA' = "IndexError"
       ELSE pcA' = "fit"
  /\ nfit' = 0
  /\ UNCHANGED <<tpos, tbeta, strictMask, slotsAt, acq, dbws, lastFit, ret,
                 evars, bvars, rvars, pvars>>

\* a bug (or a feature) the fit step could have: the exception swallowed
CurveFitNeverRaises(outcome) == FALSE

\* line 229: curve_fit raises RuntimeError when the fit does not converge;
\* there is no try/except around it
CurveFitRaises(outcome) == outcome = "failed"

\* lines 230-235: the tuple appended for one row
FitRecord(t, outcome) ==
  [time |-> t,
   time_app |-> Tbe(t),
   emit_gauss |-> IF outcome = "failed" THEN "nan" ELSE "finite",
   emit_gauss_err |-> IF outcome = "converged" THEN "finite"
                      ELSE IF outcome = "singular" THEN "inf" ELSE "nan"]

\* lines 217-235: one iteration of for idx,sl in zip(xrange(ngate),slots)
FitRow ==
  /\ pcA = "fit"
  /\ nfit < Len(slotsAt[AcqTime(acq)])
  /\ \E outcome \in FitOutcomes :
       /\ lastFit' = outcome
       /\ IF CurveFitRaises(outcome)
            THEN /\ pcA' = "RuntimeError"
                 /\ UNCHANGED <<dbws, nfit>>
            ELSE LET t  == AcqTime(acq)
                     sl == slotsAt[t][nfit + 1]
                 IN /\ dbws' = [dbws EXCEPT ![sl] =
                                  Append(@, FitRecord(t, outcome))]
                    /\ nfit' = nfit + 1
                    /\ pcA' = "fit"
  /\ UNCHANGED <<tpos, tbeta, strictMask, slotsAt, acq, ret,
                 evars, bvars, rvars, pvars>>

\* line 205: the rows of the acquisition are done, the loop goes on
NextAcq ==
  /\ pcA = "fit"
  /\ nfit = Len(slotsAt[AcqTime(acq)])
  /\ acq' = acq + 1
  /\ nfit' = 0
  /\ pcA' = "select"
  /\ UNCHANGED <<tpos, tbeta, strictMask, slotsAt, dbws, lastFit, ret,
                 evars, bvars, rvars, pvars>>

\* lines 236-243: the lists become arrays and the dictionary is returned
ReturnDict ==
  /\ pcA = "select"
  /\ acq > Len(tpos)
  /\ pcA' = "done"
  /\ ret' = "dbws"
  /\ UNCHANGED <<tpos, tbeta, strictMask, slotsAt, acq, nfit, dbws, lastFit,
                 evars, bvars, rvars, pvars>>

NextAlign == SelectAcq \/ FitRow \/ NextAcq \/ ReturnDict

InitA == EnergyIdle /\ BitsIdle /\ ResolveIdle /\ InitAlign /\ ProfileIdle

SpecAlign == InitA /\ [][NextAlign]_vars

\* the timestamps of the records of slot sl, in list order
SlotTimes(sl) == [i \in 1..Len(dbws[sl]) |-> dbws[sl][i].time]

RECURSIVE StoredTimes(_, _)
\* the timestamps, in storage order, of the first n acquisitions that
\* selected slot sl
StoredTimes(sl, n) ==
  IF n = 0 THEN <<>>
  ELSE StoredTimes(sl, n - 1)
       \o (IF sl \in Range(slotsAt[tpos[n]]) THEN <<tpos[n]>> ELSE <<>>)

\* the timestamps slot sl must hold when the loop walks the stream in storage
\* order: the acquisitions before acq, and acq itself once its row for sl is
\* fitted
ExpectedTimes(sl) ==
  StoredTimes(sl, acq - 1)
  \o (IF acq <= Len(tpos) /\ \E r \in 1..nfit : slotsAt[tpos[acq]][r] = sl
        THEN <<tpos[acq]>> ELSE <<>>)

\* C4 (as claimed): whatever the storage order of the position stream, the
\* records of every slot are in strictly ascending order of timestamp.
C4_SortedAnyOrder ==
  \A sl \in Slots : IsStrictlyAscending(SlotTimes(sl))

\* C4 (amended): the records of every slot follow the storage order of the
\* position stream; they are strictly ascending in time when the position
\* stream is stored strictly ascending.
C4_StorageOrder ==
  /\ \A sl \in Slots : SlotTimes(sl) = ExpectedTimes(sl)
  /\ IsStrictlyAscending(tpos)
       => \A sl \in Slots : IsStrictlyAscending(SlotTimes(sl))

\* C4 witness: a dictionary is returned for a position stream stored in
\* descending order, a slot holding two records.
C4_Witness ==
  /\ pcA = "done"
  /\ Len(tpos) >= 2 /\ tpos[1] > tpos[2]
  /\ \E sl \in Slots : Len(dbws[sl]) >= 2

\* an acquisition of the position stream without a beta/emittance sample
HasGap == Len(tpos) > Len(tbeta)

\* C5 (as claimed): an acquisition without a matching beta/emittance sample
\* is skipped, the call does not fail and the other acquisitions are
\* recorded.
C5_GapSkipped ==
  HasGap =>
    /\ pcA # "IndexError"
    /\ (pcA = "done" =>
          \A sl \in Slots : \A i \in 1..Len(dbws[sl]) :
             Len(dbws[sl][i].time_app) = 1)

\* C5 (amended): an acquisition without a beta/emittance sample at its
\* storage index is not skipped: the selection raises IndexError at that
\* acquisition at the latest, no dictionary is returned, and every record
\* built until then has exactly one reference timestamp, the one stored at
\* its acquisition's index.
C5_GapAborts ==
  /\ (pcA = "done" => ~HasGap)
  /\ (pcA = "IndexError" =>
        /\ ret = "none"
        /\ (acq > Len(tbeta) \/ (strictMask /\ Len(tpos) # Len(tbeta))))
  /\ (pcA \in {"fit", "RuntimeError"} => acq <= Len(tbeta))
  /\ \A sl \in Slots : \A i \in 1..Len(dbws[sl]) :
       \E k \in 1..Len(tpos) :
          /\ tpos[k] = dbws[sl][i].time
          /\ k <= Len(tbeta)
          /\ dbws[sl][i].time_app = <<tbeta[k]>>

\* C5 witness: the first acquisition was recorded, the second one has no
\* beta sample and the run ended with IndexError.
C5_Witness ==
  /\ pcA = "IndexError"
  /\ acq = 2 /\ Len(tbeta) = 1
  /\ \E sl \in Slots : Len(dbws[sl]) >= 1

\* C6 (as claimed): a fit that does not converge is recorded with NaN
\* emittance and the batch goes on without raising.
C6_FitFailureRecorded ==
  lastFit = "failed" =>
    /\ pcA # "RuntimeError"
    /\ \E sl \in Slots :
         /\ dbws[sl] # <<>>
         /\ dbws[sl][Len(dbws[sl])].emit_gauss = "nan"

\* C6 (amended): a fit that does not converge raises RuntimeError out of
\* _timber_to_dict: no record is appended for that row, no record with NaN
\* emittance ever exists, and no dictionary is returned; a returned
\* dictionary holds one record for every row of every acquisition.
C6_FitFailureAborts ==
  /\ (lastFit = "failed" => pcA = "RuntimeError" /\ ret = "none")
  /\ \A sl \in Slots : \A i \in 1..Len(dbws[sl]) :
       dbws[sl][i].emit_gauss # "nan"
  /\ (pcA = "RuntimeError" =>
        \A sl \in Slots : SlotTimes(sl) = ExpectedTimes(sl))
  /\ (pcA = "done" =>
        \A sl \in Slots : Len(dbws[sl]) = Len(StoredTimes(sl, Len(tpos))))

\* C6 witness: the second row of the second acquisition did not converge;
\* the records built before it exist, nothing is returned.
C6_Witness ==
  /\ pcA = "RuntimeError" /\ lastFit = "failed"
  /\ acq = 2 /\ nfit = 1
  /\ Len(dbws[0]) = 2
  /\ ret = "none"

----------------------------------------------------------------------------
(* _timber_to_dict, lines 206-208 and 217-235: the rows of one acquisition *)
(* are sign-normalised, shifted to a zero baseline, divided by their area  *)
(* and fitted.  Amplitudes and positions are integers here; a normalised   *)
(* row is kept as its numerators over the common denominator int_dist, so  *)
(* that the division is exact; with int_dist = 0 numpy divides by zero and *)
(* the row holds nan (0/0) and inf.                                        *)

\* bound of the explored inputs: largest amplitude magnitude
MaxAmp == 1

AmpVals == -MaxAmp..MaxAmp

\* position arrays: ascending, descending with uneven steps, with a repeated
\* position
Positions == {<<0, 1, 2>>, <<3, 1, 0>>, <<0, 0, 2>>}

\* rows (gates) of the acquisition
Gates == {1, 2}

\* line 220: np.argmax(np.abs(row)), the first index of the largest magnitude
ArgMaxAbs(row) ==
  CHOOSE j \in 1..Len(row) :
    \A k \in 1..Len(row) :
      /\ Abs(row[k]) <= Abs(row[j])
      /\ (k < j => Abs(row[k]) < Abs(row[j]))

Negate(row) == [i \in 1..Len(row) |-> -row[i]]

\* a bug the sign normalisation could have: no flip
FlipNever(row) == row

\* lines 220-223: flip in case the profile is mirrored
Flip(row) == IF row[ArgMaxAbs(row)] < 0 THEN Negate(row) ELSE row

RECURSIVE MinFrom(_, _)
MinFrom(row, i) ==
  IF i = Len(row) THEN row[i]
  ELSE LET m == MinFrom(row, i + 1) IN IF row[i] < m THEN row[i] ELSE m

\* np.min(row)
RowMin(row) == MinFrom(row, 1)

\* a bug the baseline step could have: nothing subtracted
BaselineSkipped(row) == row

\* line 225: put smallest value to 0
Baseline(row) == [i \in 1..Len(row) |-> row[i] - RowMin(row)]

\* line 226: dx = np.abs(pos[1:]-pos[0:-1])
Dx(p) == [i \in 1..Len(p) - 1 |-> Abs(p[i + 1] - p[i])]

RECURSIVE SumSeq(_, _)
\* sum of the first n elements
SumSeq(q, n) == IF n = 0 THEN 0 ELSE SumSeq(q, n - 1) + q[n]

\* line 227: int_dist = (dx*amp[idx][:-1]).sum()
IntDist(p, row) ==
  SumSeq([i \in 1..Len(p) - 1 |-> Dx(p)[i] * row[i]], Len(p) - 1)

\* line 228: amp_norm = amp[idx]/int_dist
Normalise(p, row) == [num |-> row, den |-> IntDist(p, row)]

InitProfile ==
  /\ pcP = "fit"
  /\ pos \in Positions
  /\ ampIn \in [Gates -> [1..Len(pos) -> AmpVals]]
  /\ stream = ampIn
  /\ shared \in BOOLEAN
  /\ amp = ampIn
  /\ idx = 0
  /\ amp_norm = [num |-> <<>>, den |-> 1]
  /\ recs = <<>>

\* lines 220-235 for row idx+1: amp[idx] is overwritten in place (lines 223,
\* 225) and the tuple holds amp[idx] itself; the stream's storage changes
\* with it when amp is a view of it; curve_fit may raise
ProfileRow ==
  /\ pcP = "fit"
  /\ idx < Cardinality(Gates)
  /\ LET row == Baseline(Flip(amp[idx + 1]))
         arr == [amp EXCEPT ![idx + 1] = row]
     IN /\ amp' = arr
        /\ stream' = IF shared THEN arr ELSE stream
        /\ amp_norm' = Normalise(pos, row)
        /\ \E fitted \in BOOLEAN :
             IF fitted
               THEN /\ recs' = Append(recs, [amp |-> arr[idx + 1],
                                             amp_norm |-> Normalise(pos, row)])
                    /\ idx' = idx + 1
                    /\ pcP' = IF idx + 1 = Cardinality(Gates)
                                THEN "done" ELSE "fit"
               ELSE /\ pcP' = "FitError"
                    /\ UNCHANGED <<recs, idx>>
  /\ UNCHANGED <<pos, ampIn, shared, evars, bvars, rvars, avars>>

NextProfile == ProfileRow

InitP == EnergyIdle /\ BitsIdle /\ ResolveIdle /\ AlignIdle /\ InitProfile

SpecProfile == InitP /\ [][NextProfile]_vars

\* some row has been normalised
Normalised == amp_norm.num # <<>>

\* the minimum of a normalised row is exactly 0: the division is defined and
\* the smallest numerator is 0
MinIsZero(n) ==
  /\ n.den # 0
  /\ \A i \in 1..Len(n.num) : n.num[i] >= 0
  /\ \E i \in 1..Len(n.num) : n.num[i] = 0

\* the sum of |position delta| times normalised amplitude, last point
\* excluded, is exactly 1
AreaIsOne(n) ==
  /\ n.den # 0
  /\ SumSeq([i \in 1..Len(pos) - 1 |-> Abs(pos[i + 1] - pos[i]) * n.num[i]],
            Len(pos) - 1) = n.den

\* C7 (as claimed): every normalised row has minimum 0 and area 1.
C7_NormalisedAnyRow ==
  Normalised => MinIsZero(amp_norm) /\ AreaIsOne(amp_norm)

\* C7 (amended): every row whose area after sign flip and baseline
\* subtraction is not zero is normalised to minimum 0 and area 1; the area
\* is never negative.
C7_NormalisedNonZeroArea ==
  Normalised =>
    /\ amp_norm.den >= 0
    /\ (amp_norm.den # 0 => MinIsZero(amp_norm) /\ AreaIsOne(amp_norm))

\* C7 witness: a row with a negative peak and a non-zero baseline has been
\* flipped, shifted and normalised over descending positions.
C7_Witness ==
  /\ Normalised /\ idx = 1
  /\ pos[1] > pos[2]
  /\ ampIn[1][2] < 0 /\ ampIn[1][1] = 0 /\ ampIn[1][3] = 0
  /\ amp_norm.den # 0
  /\ recs[1].amp_norm = amp_norm

\* largest and smallest element of a row
MaxOf(a) == CHOOSE x \in Range(a) : \A y \in Range(a) : y <= x
MinOf(a) == CHOOSE x \in Range(a) : \A y \in Range(a) : x <= y

\* the first element of largest magnitude is negative
NegativePeak(a) ==
  \E j \in 1..Len(a) :
    /\ a[j] < 0
    /\ \A k \in 1..Len(a) : Abs(a[k]) <= Abs(a[j])
    /\ \A k \in 1..j - 1 : Abs(a[k]) < Abs(a[j])

\* r is row a with its sign normalised and its baseline at 0
IsTransformed(r, a) ==
  /\ Len(r) = Len(a)
  /\ \A j \in 1..Len(a) :
       r[j] = IF NegativePeak(a) THEN MaxOf(a) - a[j] ELSE a[j] - MinOf(a)

\* C10 (as claimed): fitting leaves the amplitude rows unchanged and the
\* amplitude recorded in the tuple is the row as supplied.
C10_RawRecorded ==
  /\ amp = ampIn
  /\ \A i \in 1..Len(recs) : recs[i].amp = ampIn[i]

\* C10 (amended): fitting row i overwrites that row of the local amplitude
\* array with the sign-normalised, baseline-subtracted row, and this
\* transformed row is what the tuple records as amplitude; the rows not yet
\* fitted are as supplied; the stream's own storage changes too exactly when
\* the local array is a view of it; amp_norm is the recorded row over its
\* area.
C10_TransformedRecorded ==
  /\ \A i \in 1..Len(recs) :
       /\ IsTransformed(recs[i].amp, ampIn[i])
       /\ recs[i].amp = amp[i]
       /\ recs[i].amp_norm.num = recs[i].amp
  /\ \A i \in Gates :
       IF i <= idx \/ (pcP = "FitError" /\ i = idx + 1)
         THEN IsTransformed(amp[i], ampIn[i])
         ELSE amp[i] = ampIn[i]
  /\ stream = IF shared THEN amp ELSE ampIn

\* C10 witness: a mirrored row was fitted and its tuple holds a row that
\* differs from the supplied one, while the next row is still as supplied.
C10_Witness ==
  /\ pcP = "fit" /\ idx = 1
  /\ NegativePeak(ampIn[1])
  /\ recs[1].amp # ampIn[1]
  /\ amp[2] = ampIn[2] /\ NegativePeak(ampIn[2])
  /\ ~shared /\ stream = ampIn

====
